---- MODULE Spec2Model ----
(***************************************************************************)
(* Rotor machine simulator: the rotor (src/rotor.py) and the rotor bank    *)
(* and machines built from it (src/Rotor_Machine.py).                      *)
(*                                                                         *)
(* Python lists are modelled as functions on 0..n-1, so that indices read  *)
(* as they do in the source.  A call that raises is recorded with the name *)
(* of the exception in the field err of the call record; "none" means the  *)
(* call returned.  Names are resolved against the classes that the two     *)
(* source files define: a method or attribute a class does not define      *)
(* raises AttributeError, a bare name that no scope binds raises NameError.*)
(***************************************************************************)
EXTENDS Integers, Sequences, FiniteSets, TLC

VARIABLES debug, rot, rotors, reflector, steckerboard, stepping_positions,
          control_rotors, index_map, control_inputs, control_step_position,
          control_step_order, nsteps, ticks, call, prev

vars == <<debug, rot, rotors, reflector, steckerboard, stepping_positions,
          control_rotors, index_map, control_inputs, control_step_position,
          control_step_order, nsteps, ticks, call, prev>>

(***************************************************************************)
(* Bounds of the model.                                                    *)
(***************************************************************************)
\* largest rotor size for which every permutation wiring is enumerated
MaxN == 3
\* largest number of rotors in a bank
MaxRotors == 3
\* ticks counted after a key setup
MaxTicks == 4
\* largest number of rotors in a SIGABA control bank
MaxControl == 2
\* ticks of the simple machine counted after a key setup
MaxSimpleTicks == 10

(***************************************************************************)
(* Python lists and integer arithmetic.                                    *)
(***************************************************************************)
PyLen(l) == Cardinality(DOMAIN l)

\* l[i] is defined in Python for -len <= i < len; a negative index counts
\* from the end.
PyIndexOK(l, i) == -PyLen(l) <= i /\ i < PyLen(l)
PyNorm(l, i) == IF i < 0 THEN i + PyLen(l) ELSE i
PyGet(l, i) == l[PyNorm(l, i)]

\* range(0, n)
Range(n) == 0 .. (n - 1)

Max(S) == CHOOSE m \in S : \A s \in S : s <= m
Min(S) == CHOOSE m \in S : \A s \in S : m <= s

IdentityWiring(n) == [i \in Range(n) |-> i]

IsPermutation(w) ==
    /\ PyLen(w) > 0
    /\ \A i \in DOMAIN w : w[i] \in DOMAIN w
    /\ \A i, j \in DOMAIN w : w[i] = w[j] => i = j

\* every permutation of 0..n-1, as a list
Permutations0(n) == {w \in [Range(n) -> Range(n)] : IsPermutation(w)}

(***************************************************************************)
(* class rotor (src/rotor.py)                                              *)
(***************************************************************************)
NoObject == [size |-> -1]

\* rotor.set_wiring, as run by rotor.__init__.  dbg is Python's __debug__:
\* with it the assert statements run, without it (python -O) they are
\* stripped.  The result is the exception raised and the object built.
set_wiring(wiring, dbg) ==
    LET size == PyLen(wiring)
        \* the first index at which the loop of lines 53-57 raises
        bad(i) == IF dbg THEN TRUE ELSE ~PyIndexOK(wiring, wiring[i])
        stops == {i \in Range(size) : bad(i)}
        rw == [t \in Range(size) |->
                 LET hits == {i \in Range(size) : PyNorm(wiring, wiring[i]) = t}
                 IN IF hits = {} THEN t ELSE Max(hits)]
    IN IF dbg /\ size = 0 THEN [err |-> "AssertionError", obj |-> NoObject]
       ELSE IF stops # {}
       THEN LET i == Min(stops)
                j == wiring[i]
            IN IF dbg /\ ~(0 <= j /\ j < size)
               THEN [err |-> "AssertionError", obj |-> NoObject]
               ELSE IF dbg
               \* line 56: wiring[0,i] indexes a list with a tuple
               THEN [err |-> "TypeError", obj |-> NoObject]
               ELSE [err |-> "IndexError", obj |-> NoObject]
       ELSE [err |-> "none",
             obj |-> [size |-> size, wiring |-> wiring, reverse_wiring |-> rw,
                      position |-> 0, reversed |-> FALSE]]

\* set_position that stores the position as given, without the rollover
set_position_raw(r, position) ==
    IF r.size = 0 THEN [err |-> "ZeroDivisionError", obj |-> r]
    ELSE [err |-> "none", obj |-> [r EXCEPT !.position = position]]

\* rotor.set_position: the rotor after the call, or the exception
set_position(r, position) ==
    IF r.size = 0 THEN [err |-> "ZeroDivisionError", obj |-> r]
    ELSE [err |-> "none", obj |-> [r EXCEPT !.position = position % r.size]]

\* step that does not roll over modulo the size
step_nowrap(r, steps) ==
    IF r.size = 0 THEN [err |-> "ZeroDivisionError", obj |-> r]
    ELSE [err |-> "none", obj |-> [r EXCEPT !.position = r.position + steps]]

\* rotor.step
step(r, steps) ==
    IF r.size = 0 THEN [err |-> "ZeroDivisionError", obj |-> r]
    ELSE [err |-> "none",
          obj |-> [r EXCEPT !.position = (r.position + steps) % r.size]]

\* encode with the offset applied the other way round (the Enigma sign in
\* place of the SIGABA sign)
encode_sign(r, x, dbg) ==
    IF dbg /\ ~(0 <= x /\ x < r.size) THEN [err |-> "AssertionError", res |-> 0]
    ELSE IF r.size = 0 THEN [err |-> "ZeroDivisionError", res |-> 0]
    ELSE LET y == r.wiring[(x + r.position) % r.size]
         IN [err |-> "none", res |-> (y - r.position) % r.size]

\* encode that does not shift the output back into the external frame
encode_noshift(r, x, dbg) ==
    IF dbg /\ ~(0 <= x /\ x < r.size) THEN [err |-> "AssertionError", res |-> 0]
    ELSE IF r.size = 0 THEN [err |-> "ZeroDivisionError", res |-> 0]
    ELSE LET y == r.wiring[(x - r.position) % r.size]
         IN [err |-> "none", res |-> y % r.size]

\* rotor.encode
encode(r, x, dbg) ==
    IF dbg /\ ~(0 <= x /\ x < r.size) THEN [err |-> "AssertionError", res |-> 0]
    ELSE IF r.size = 0 THEN [err |-> "ZeroDivisionError", res |-> 0]
    ELSE LET y == r.wiring[(x - r.position) % r.size]
         IN [err |-> "none", res |-> (y + r.position) % r.size]

\* decode that looks the symbol up in the forward table
decode_forward(r, y, dbg) ==
    IF dbg /\ ~(0 <= y /\ y < r.size) THEN [err |-> "AssertionError", res |-> 0]
    ELSE IF r.size = 0 THEN [err |-> "ZeroDivisionError", res |-> 0]
    ELSE LET x == r.wiring[(y - r.position) % r.size]
         IN [err |-> "none", res |-> (x + r.position) % r.size]

\* rotor.decode
decode(r, y, dbg) ==
    IF dbg /\ ~(0 <= y /\ y < r.size) THEN [err |-> "AssertionError", res |-> 0]
    ELSE IF r.size = 0 THEN [err |-> "ZeroDivisionError", res |-> 0]
    ELSE LET x == r.reverse_wiring[(y - r.position) % r.size]
         IN [err |-> "none", res |-> (x + r.position) % r.size]

(***************************************************************************)
(* The call records.  call is the last call made, prev the one before it.  *)
(* pos holds the positions before the call, where a property reads them.   *)
(***************************************************************************)
NoCall == [op |-> "none", arg |-> 0, res |-> 0, err |-> "none", pos |-> <<>>]

Log(op, arg, res, err, pos) ==
    /\ call' = [op |-> op, arg |-> arg, res |-> res, err |-> err, pos |-> pos]
    /\ prev' = call

(***************************************************************************)
(* One rotor on its own: construction, positioning, encode and decode.     *)
(***************************************************************************)
\* wirings that are not permutations, as a caller may pass them
BadWirings ==
    { <<>>, [i \in Range(2) |-> 0], [i \in Range(2) |-> IF i = 0 THEN 2 ELSE 0],
      [i \in Range(2) |-> IF i = 0 THEN -1 ELSE 0] }

WiringInputs ==
    UNION {Permutations0(n) : n \in 1 .. MaxN} \cup {IdentityWiring(26)}
        \cup BadWirings

MachineUnused ==
    /\ rotors = <<>> /\ reflector = NoObject /\ steckerboard = NoObject
    /\ stepping_positions = <<>> /\ control_rotors = <<>> /\ index_map = <<>>
    /\ control_inputs = <<>> /\ control_step_position = 0
    /\ control_step_order = <<>> /\ nsteps = <<>> /\ ticks = 0

machineVars == <<rotors, reflector, steckerboard, stepping_positions,
                 control_rotors, index_map, control_inputs,
                 control_step_position, control_step_order, nsteps, ticks>>

InitRotor ==
    /\ debug \in BOOLEAN
    /\ rot = <<>>
    /\ call = NoCall /\ prev = NoCall
    /\ MachineUnused

\* rotor(wiring)
RotorCreate ==
    /\ rot = <<>>
    /\ \E w \in WiringInputs :
         LET c == set_wiring(w, debug)
         IN /\ rot' = IF c.err = "none" THEN <<c.obj>> ELSE rot
            /\ Log("rotor", w, 0, c.err, <<>>)
    /\ UNCHANGED <<debug, machineVars>>

\* the integers a caller passes as a position, a step count or a symbol
\* (around 0, around the size, and beyond one full turn either way)
IntInputs(r) ==
    {p \in -2 .. (r.size + 1) : p <= 1 \/ p >= r.size - 1}
        \cup {2 * r.size + 1, -r.size - 1}

\* the symbols a caller passes to encode and decode, one below and one above
\* the valid range included
SymbolInputs(r) ==
    {x \in -1 .. r.size : x <= MaxN \/ x = 5 \/ x >= r.size - 1}

RotorSetPosition ==
    /\ rot # <<>>
    /\ \E p \in IntInputs(rot[1]) :
         LET c == set_position(rot[1], p)
         IN /\ rot' = <<c.obj>>
            /\ Log("set_position", p, 0, c.err, rot[1].position)
    /\ UNCHANGED <<debug, machineVars>>

RotorStep ==
    /\ rot # <<>>
    /\ \E d \in IntInputs(rot[1]) :
         LET c == step(rot[1], d)
         IN /\ rot' = <<c.obj>>
            /\ Log("step", d, 0, c.err, rot[1].position)
    /\ UNCHANGED <<debug, machineVars>>

RotorEncode ==
    /\ rot # <<>>
    /\ \E x \in SymbolInputs(rot[1]) :
         LET c == encode(rot[1], x, debug)
         IN Log("encode", x, c.res, c.err, rot[1].position)
    /\ UNCHANGED <<debug, rot, machineVars>>

RotorDecode ==
    /\ rot # <<>>
    /\ \E y \in SymbolInputs(rot[1]) :
         LET c == decode(rot[1], y, debug)
         IN Log("decode", y, c.res, c.err, rot[1].position)
    /\ UNCHANGED <<debug, rot, machineVars>>

NextRotor ==
    \/ RotorCreate
    \/ RotorSetPosition
    \/ RotorStep
    \/ RotorEncode
    \/ RotorDecode

SpecRotor == InitRotor /\ [][NextRotor]_vars

\* the mathematical inverse of a permutation
Inverse(w) == [t \in DOMAIN w |-> CHOOSE i \in DOMAIN w : w[i] = t]

Returned(c, v) == c.err = "none" /\ c.res = v

\* C1: for a rotor built from a valid permutation wiring, at every position
\* and for every x in [0,N), decode(encode(x)) = x and encode(decode(x)) = x,
\* the position being the same at both calls.
C1_RoundTrip ==
    (rot # <<>> /\ IsPermutation(rot[1].wiring)) =>
        /\ \A x \in Range(rot[1].size) :
              /\ encode(rot[1], x, debug).err = "none"
              /\ Returned(decode(rot[1], encode(rot[1], x, debug).res, debug), x)
              /\ decode(rot[1], x, debug).err = "none"
              /\ Returned(encode(rot[1], decode(rot[1], x, debug).res, debug), x)
        /\ (/\ prev.op = "encode" /\ prev.err = "none"
            /\ prev.arg \in Range(rot[1].size)
            /\ call.op = "decode" /\ call.arg = prev.res)
              => (Returned(call, prev.arg) /\ call.pos = prev.pos)
        /\ (/\ prev.op = "decode" /\ prev.err = "none"
            /\ prev.arg \in Range(rot[1].size)
            /\ call.op = "encode" /\ call.arg = prev.res)
              => (Returned(call, prev.arg) /\ call.pos = prev.pos)

\* a rotor with a wiring that is not the identity, turned away from 0, has
\* encoded a symbol to a different one and decoded it back
C1_Witness ==
    /\ rot # <<>> /\ IsPermutation(rot[1].wiring)
    /\ rot[1].size = MaxN /\ rot[1].wiring # IdentityWiring(MaxN)
    /\ rot[1].position # 0
    /\ prev.op = "encode" /\ call.op = "decode"
    /\ call.arg = prev.res /\ prev.res # prev.arg
    /\ Returned(call, prev.arg)

\* C2: for a rotor of size N with wiring W at position p and x in [0,N),
\* encode(x) returns (W[(x - p) mod N] + p) mod N and decode(y) returns
\* (W_inverse[(y - p) mod N] + p) mod N; neither call changes the position.
C2_EncodeDecodeFormula ==
    (rot # <<>> /\ IsPermutation(rot[1].wiring)) =>
        LET N == rot[1].size
            W == rot[1].wiring
            p == call.pos
        IN /\ (call.op = "encode" /\ call.arg \in Range(N)) =>
                /\ Returned(call, (W[(call.arg - p) % N] + p) % N)
                /\ rot[1].position = p
           /\ (call.op = "decode" /\ call.arg \in Range(N)) =>
                /\ Returned(call, (Inverse(W)[(call.arg - p) % N] + p) % N)
                /\ rot[1].position = p

\* a decode at a position other than 0 through a wiring that is not its own
\* inverse
C2_Witness ==
    /\ rot # <<>> /\ IsPermutation(rot[1].wiring)
    /\ rot[1].wiring # Inverse(rot[1].wiring)
    /\ call.op = "decode" /\ call.arg \in Range(rot[1].size)
    /\ call.err = "none" /\ call.pos # 0 /\ call.res # call.arg

IsScenarioA == rot # <<>> /\ rot[1].wiring = IdentityWiring(26)

\* C3 as the spec states it: N = 26, identity wiring; at position 0
\* encode(5) = 5; after set_position(1), encode(0) = 1 and decode(1) = 0.
C3_ScenarioA_AsStated ==
    IsScenarioA =>
        /\ (call.op = "encode" /\ call.pos = 0 /\ call.arg = 5)
              => Returned(call, 5)
        /\ (call.op = "set_position" /\ call.arg = 1) => rot[1].position = 1
        /\ (call.op = "encode" /\ call.pos = 1 /\ call.arg = 0)
              => Returned(call, 1)
        /\ (call.op = "decode" /\ call.pos = 1 /\ call.arg = 1)
              => Returned(call, 0)

\* C3 (amended): N = 26, identity wiring; at position 0 encode(5) = 5; after
\* set_position(1), encode(0) = 0 and decode(1) = 1: the identity wiring
\* encodes every symbol to itself at every position.
C3_ScenarioA_Amended ==
    IsScenarioA =>
        /\ (call.op = "encode" /\ call.pos = 0 /\ call.arg = 5)
              => Returned(call, 5)
        /\ (call.op = "set_position" /\ call.arg = 1) => rot[1].position = 1
        /\ (call.op = "encode" /\ call.pos = 1 /\ call.arg = 0)
              => Returned(call, 0)
        /\ (call.op = "decode" /\ call.pos = 1 /\ call.arg = 1)
              => Returned(call, 1)
        /\ LET r1 == set_position(rot[1], 1).obj
           IN /\ Returned(encode(r1, 0, debug), 0)
              /\ Returned(decode(r1, 1, debug), 1)

\* set_position(1), then encode(0), then decode(1) on the identity rotor
C3_Witness ==
    /\ IsScenarioA
    /\ prev.op = "encode" /\ prev.pos = 1 /\ prev.arg = 0
    /\ call.op = "decode" /\ call.pos = 1 /\ call.arg = 1
    /\ call.err = "none"

\* C11: for every rotor of size N and every integer x with x < 0 or x >= N,
\* encode(x) and decode(x) fail with an error instead of wrapping x modulo N,
\* and the failed call leaves the position and the wiring as they were.
C11_OutOfRangeFails ==
    (/\ rot # <<>>
     /\ call.op \in {"encode", "decode"}
     /\ ~(0 <= call.arg /\ call.arg < rot[1].size))
        => (call.err # "none" /\ rot[1].position = call.pos)

\* C12: creating a rotor succeeds exactly when the wiring is a non-empty
\* permutation of 0..N-1; an accepted wiring yields position 0, forward
\* orientation and reverse_wiring[wiring[i]] = i for all i.
C12_CreateValidates ==
    call.op = "rotor" =>
        /\ (call.err = "none") <=> IsPermutation(call.arg)
        /\ call.err = "none" =>
              /\ rot # <<>>
              /\ rot[1].wiring = call.arg
              /\ rot[1].position = 0
              /\ rot[1].reversed = FALSE
              /\ \A i \in DOMAIN call.arg :
                    rot[1].reverse_wiring[call.arg[i]] = i

\* C13: after any sequence of set_position(p) and step(delta) calls with
\* arbitrary integers p and delta, the position of a rotor of size N >= 1 is
\* in [0,N): set_position(p) leaves p mod N, step(delta) leaves
\* (old position + delta) mod N, and step(+1) followed by step(-1) restores
\* the old position.
C13_PositionNormalized ==
    (rot # <<>> /\ rot[1].size > 0) =>
        LET N == rot[1].size
        IN /\ rot[1].position \in Range(N)
           /\ call.op = "set_position" =>
                 (call.err = "none" /\ rot[1].position = call.arg % N)
           /\ call.op = "step" =>
                 (call.err = "none"
                    /\ rot[1].position = (call.pos + call.arg) % N)
           /\ (/\ prev.op = "step" /\ prev.arg = 1
               /\ call.op = "step" /\ call.arg = -1)
                 => rot[1].position = prev.pos

\* step(+1) from the last position rolls over to 0 and step(-1) rolls back
C13_Witness ==
    /\ rot # <<>> /\ rot[1].size = MaxN
    /\ prev.op = "step" /\ prev.arg = 1 /\ prev.pos = MaxN - 1
    /\ call.op = "step" /\ call.arg = -1 /\ call.pos = 0
    /\ rot[1].position = MaxN - 1

(***************************************************************************)
(* Calls on the rotors of a bank or machine (src/Rotor_Machine.py).        *)
(***************************************************************************)
\* r.<method>(x) on an instance of class rotor: the class defines encode and
\* decode (src/rotor.py lines 66 and 75) and no other method taking a
\* symbol, so any other name raises AttributeError.
rotor_call(r, method, x, dbg) ==
    CASE method = "encode" -> encode(r, x, dbg)
      [] method = "decode" -> decode(r, x, dbg)
      [] OTHER -> [err |-> "AttributeError", res |-> 0]

\* for r in rs: x = r.<method>(x), from rotor i on
RECURSIVE pass_forward(_, _, _, _, _)
pass_forward(rs, i, x, method, dbg) ==
    IF i >= PyLen(rs) THEN [err |-> "none", res |-> x]
    ELSE LET c == rotor_call(rs[i], method, x, dbg)
         IN IF c.err # "none" THEN c
            ELSE pass_forward(rs, i + 1, c.res, method, dbg)

\* for i in range(n - 1, -1, -1): y = rs[i].<method>(y), from rotor i down
RECURSIVE pass_backward(_, _, _, _, _)
pass_backward(rs, i, y, method, dbg) ==
    IF i < 0 THEN [err |-> "none", res |-> y]
    ELSE LET c == rotor_call(rs[i], method, y, dbg)
         IN IF c.err # "none" THEN c
            ELSE pass_backward(rs, i - 1, c.res, method, dbg)

\* the positions of a list of rotors
Positions(rs) == [i \in DOMAIN rs |-> rs[i].position]

\* the rotors a bank is assembled from: three wirings of each size
RotorBox(N) ==
    { IdentityWiring(N), [i \in Range(N) |-> (i + 1) % N],
      [i \in Range(N) |-> N - 1 - i] }

\* lists of k rotors of size N, each built by rotor(wiring)
BuiltRotors(k, N, dbg) ==
    { [i \in Range(k) |-> set_wiring(ws[i], dbg).obj] :
        ws \in { v \in [Range(k) -> RotorBox(N)] :
                   \A i \in Range(k) : set_wiring(v[i], dbg).err = "none" } }

\* a call record that leaves prev alone
Log1(op, arg, res, err, pos) ==
    /\ call' = [op |-> op, arg |-> arg, res |-> res, err |-> err, pos |-> pos]
    /\ UNCHANGED prev

(***************************************************************************)
(* class RotorBank                                                         *)
(***************************************************************************)
\* RotorBank.encrypt
RotorBank_encrypt(rs, x, dbg) == pass_forward(rs, 0, x, "encrypt", dbg)

\* RotorBank.decrypt
RotorBank_decrypt(rs, y, dbg) ==
    pass_backward(rs, PyLen(rs) - 1, y, "decrypt", dbg)

\* RotorBank.set_rotor_position
RotorBank_set_rotor_position(rs, rotor, position) ==
    IF ~PyIndexOK(rs, rotor) THEN [err |-> "IndexError", rotors |-> rs]
    ELSE LET i == PyNorm(rs, rotor)
             c == set_position(rs[i], position)
         IN [err |-> c.err, rotors |-> [rs EXCEPT ![i] = c.obj]]

\* RotorBank.get_rotor_position
RotorBank_get_rotor_position(rs, rotor) ==
    IF ~PyIndexOK(rs, rotor) THEN [err |-> "IndexError", res |-> 0]
    ELSE [err |-> "none", res |-> PyGet(rs, rotor).position]

\* RotorBank.step_rotor
RotorBank_step_rotor(rs, rotor, steps) ==
    IF ~PyIndexOK(rs, rotor) THEN [err |-> "IndexError", rotors |-> rs]
    ELSE LET i == PyNorm(rs, rotor)
             c == step(rs[i], steps)
         IN [err |-> c.err, rotors |-> [rs EXCEPT ![i] = c.obj]]

\* RotorBank.set_positions: the loop runs over the rotors and raises at the
\* first rotor the list has no entry for, the rotors before it already set
\* (the assert of line 229 is about i, and is stripped with the others).
RotorBank_set_positions(rs, positions) ==
    LET n == IF PyLen(positions) < PyLen(rs) THEN PyLen(positions) ELSE PyLen(rs)
    IN [err |-> IF PyLen(positions) < PyLen(rs) THEN "IndexError" ELSE "none",
        rotors |-> [i \in DOMAIN rs |->
                      IF i < n THEN set_position(rs[i], positions[i]).obj
                      ELSE rs[i]]]

othersUnused ==
    /\ rot = <<>> /\ reflector = NoObject /\ steckerboard = NoObject
    /\ stepping_positions = <<>> /\ control_rotors = <<>> /\ index_map = <<>>
    /\ control_inputs = <<>> /\ control_step_position = 0
    /\ control_step_order = <<>> /\ nsteps = <<>> /\ ticks = 0

bankFrame == <<debug, rot, reflector, steckerboard, stepping_positions,
               control_rotors, index_map, control_inputs,
               control_step_position, control_step_order, nsteps, ticks>>

\* RotorBank(rotors): RotorBank.__init__ and set_rotors, on rotors that
\* rotor(wiring) has built
InitBank ==
    /\ debug \in BOOLEAN
    /\ \E k \in 1 .. MaxRotors, N \in 1 .. MaxN :
         rotors \in BuiltRotors(k, N, debug)
    /\ call = NoCall /\ prev = NoCall
    /\ othersUnused

rotor_size == rotors[0].size
num_rotors == PyLen(rotors)

BankEncrypt ==
    /\ \E x \in -1 .. rotor_size :
         LET c == RotorBank_encrypt(rotors, x, debug)
         IN Log1("encrypt", x, c.res, c.err, Positions(rotors))
    /\ UNCHANGED <<rotors, bankFrame>>

BankDecrypt ==
    /\ \E y \in -1 .. rotor_size :
         LET c == RotorBank_decrypt(rotors, y, debug)
         IN Log1("decrypt", y, c.res, c.err, Positions(rotors))
    /\ UNCHANGED <<rotors, bankFrame>>

BankSetRotorPosition ==
    /\ \E i \in (-num_rotors - 1) .. num_rotors, p \in {-1, 0, rotor_size + 1} :
         LET c == RotorBank_set_rotor_position(rotors, i, p)
         IN /\ rotors' = c.rotors
            /\ Log1("set_rotor_position", <<i, p>>, 0, c.err, Positions(rotors))
    /\ UNCHANGED bankFrame

BankGetRotorPosition ==
    /\ \E i \in (-num_rotors - 1) .. num_rotors :
         LET c == RotorBank_get_rotor_position(rotors, i)
         IN Log1("get_rotor_position", <<i, 0>>, c.res, c.err, Positions(rotors))
    /\ UNCHANGED <<rotors, bankFrame>>

BankStepRotor ==
    /\ \E i \in (-num_rotors - 1) .. num_rotors, d \in {-1, 1} :
         LET c == RotorBank_step_rotor(rotors, i, d)
         IN /\ rotors' = c.rotors
            /\ Log1("step_rotor", <<i, d>>, 0, c.err, Positions(rotors))
    /\ UNCHANGED bankFrame

BankSetPositions ==
    /\ \E n \in (num_rotors - 1) .. (num_rotors + 1) :
         \E ps \in [Range(n) -> {-1, rotor_size + 1}] :
           LET c == RotorBank_set_positions(rotors, ps)
           IN /\ rotors' = c.rotors
              /\ Log1("set_positions", ps, 0, c.err, Positions(rotors))
    /\ UNCHANGED bankFrame

NextBank ==
    \/ BankEncrypt
    \/ BankDecrypt
    \/ BankSetRotorPosition
    \/ BankGetRotorPosition
    \/ BankStepRotor
    \/ BankSetPositions

SpecBank == InitBank /\ [][NextBank]_vars

\* C4: for every RotorBank and every x in [0,N), encrypt(x) returns and
\* decrypt of what it returned gives x back, the rotors left where they were;
\* encrypt passes x through rotors 0..k-1 with encode, decrypt through
\* rotors k-1..0 with decode.
C4_BankRoundTrip ==
    (call.op = "encrypt" /\ call.arg \in Range(rotor_size)) =>
        /\ call.err = "none"
        /\ call.res = pass_forward(rotors, 0, call.arg, "encode", debug).res
        /\ Positions(rotors) = call.pos
        /\ Returned(RotorBank_decrypt(rotors, call.res, debug), call.arg)

\* the last call named a rotor of the bank by index
IsIndexedCall ==
    call.op \in {"set_rotor_position", "get_rotor_position", "step_rotor"}

\* C18: set_positions with a list shorter or longer than the rotor count,
\* and set_rotor_position, get_rotor_position and step_rotor with a rotor
\* index outside [0, count), fail and leave every rotor position unchanged;
\* a list of the right length is accepted and sets rotor i to
\* positions[i] mod N.
C18_SettersValidate ==
    /\ (call.op = "set_positions" /\ PyLen(call.arg) # num_rotors) =>
          (call.err # "none" /\ Positions(rotors) = call.pos)
    /\ (call.op = "set_positions" /\ PyLen(call.arg) = num_rotors) =>
          /\ call.err = "none"
          /\ \A i \in Range(num_rotors) :
                rotors[i].position = call.arg[i] % rotor_size
    /\ (IsIndexedCall /\ call.arg[1] \notin Range(num_rotors)) =>
          (call.err # "none" /\ Positions(rotors) = call.pos)

(***************************************************************************)
(* class EnigmaMachine                                                     *)
(***************************************************************************)
\* banks whose rotors all carry the same wiring of the box
UniformRotors(k, N, dbg) ==
    {rs \in BuiltRotors(k, N, dbg) : \A i \in Range(k) : rs[i].wiring = rs[0].wiring}

\* EnigmaMachine.set_steckerboard: None stands for the identity rotor
set_steckerboard(given, size, dbg) ==
    IF given = NoObject THEN set_wiring(IdentityWiring(size), dbg).obj ELSE given

\* EnigmaMachine.set_stepping_positions: None stands for 1 on every rotor
set_stepping_positions(given, n) ==
    IF given = <<"None">> THEN [i \in Range(n) |-> 1] ELSE given

\* the loop of EnigmaMachine.step_rotors from index i on: the rotors after
\* it, the rotors it stepped, and the exception it raised, if any.  The loop
\* runs to rotor_size, not to the number of rotors.
RECURSIVE step_rotors_loop(_, _, _, _, _)
step_rotors_loop(rs, sp, size, i, stepped) ==
    IF i >= size THEN [err |-> "none", rotors |-> rs, stepped |-> stepped]
    ELSE IF ~PyIndexOK(sp, i - 1)
    THEN [err |-> "IndexError", rotors |-> rs, stepped |-> stepped]
    ELSE IF (rs[i - 1].position + 1) % size = PyGet(sp, i - 1)
    THEN IF ~PyIndexOK(rs, i)
         THEN [err |-> "IndexError", rotors |-> rs, stepped |-> stepped]
         ELSE step_rotors_loop([rs EXCEPT ![i] = step(rs[i], -1).obj], sp, size,
                               i + 1, stepped \cup {i})
    ELSE [err |-> "none", rotors |-> rs, stepped |-> stepped]

\* stepping that runs the loop to the number of rotors and takes the carry
\* when the rotor that stepped stands on its notch
step_rotors_on_notch(rs, sp, size) ==
    LET RECURSIVE loop(_, _, _)
        loop(r, i, stepped) ==
            IF i >= PyLen(r) THEN [err |-> "none", rotors |-> r, stepped |-> stepped]
            ELSE IF r[i - 1].position = sp[i - 1]
            THEN loop([r EXCEPT ![i] = step(r[i], -1).obj], i + 1, stepped \cup {i})
            ELSE [err |-> "none", rotors |-> r, stepped |-> stepped]
    IN loop([rs EXCEPT ![0] = step(rs[0], -1).obj], 1, {0})

\* EnigmaMachine.step_rotors
step_rotors(rs, sp, size) ==
    step_rotors_loop([rs EXCEPT ![0] = step(rs[0], -1).obj], sp, size, 1, {0})

Failed(e, rs) == [err |-> e, res |-> 0, rotors |-> rs, stepped |-> {}]

\* EnigmaMachine.encrypt on machine m: what it returns or raises, the rotors
\* after the call and the rotors it stepped
Enigma_encrypt(m, x, dbg) ==
    LET k == PyLen(m.rotors)
        a == rotor_call(m.steckerboard, "encrypt", x, dbg)
        b == pass_forward(m.rotors, 0, a.res, "encrypt", dbg)
        c == rotor_call(m.reflector, "encrypt", b.res, dbg)
        d == pass_backward(m.rotors, k - 1, c.res, "decrypt", dbg)
        e == rotor_call(m.steckerboard, "decrypt", d.res, dbg)
        s == step_rotors(m.rotors, m.stepping_positions, m.rotors[0].size)
        done(y) == [err |-> s.err, res |-> IF s.err = "none" THEN y ELSE 0,
                    rotors |-> s.rotors, stepped |-> s.stepped]
    IN IF a.err # "none" THEN Failed(a.err, m.rotors)
       ELSE IF b.err # "none" THEN Failed(b.err, m.rotors)
       ELSE IF m.reflector = NoObject THEN done(b.res)
       ELSE IF c.err # "none" THEN Failed(c.err, m.rotors)
       ELSE IF d.err # "none" THEN Failed(d.err, m.rotors)
       ELSE IF e.err # "none" THEN Failed(e.err, m.rotors)
       ELSE done(e.res)

\* EnigmaMachine.decrypt.  Without a reflector, line 201 reads the bare name
\* steckerboard, which no scope binds.
Enigma_decrypt(m, y, dbg) ==
    IF m.reflector # NoObject THEN Enigma_encrypt(m, y, dbg)
    ELSE LET d == pass_backward(m.rotors, PyLen(m.rotors) - 1, y, "decrypt", dbg)
         IN IF d.err # "none" THEN Failed(d.err, m.rotors)
            ELSE Failed("NameError", m.rotors)

\* the machine the variables hold
Enigma ==
    [rotors |-> rotors, reflector |-> reflector, steckerboard |-> steckerboard,
     stepping_positions |-> stepping_positions]

\* the same machine with its rotors at positions ps
EnigmaAt(ps) ==
    [Enigma EXCEPT !.rotors = [i \in DOMAIN rotors |->
                                 [rotors[i] EXCEPT !.position = ps[i]]]]

enigmaUnused ==
    /\ rot = <<>> /\ control_rotors = <<>> /\ index_map = <<>>
    /\ control_inputs = <<>> /\ control_step_position = 0
    /\ control_step_order = <<>>

enigmaFrame == <<debug, rot, reflector, steckerboard, stepping_positions,
                 control_rotors, index_map, control_inputs,
                 control_step_position, control_step_order>>

\* EnigmaMachine(rotors, stepping_positions, reflector, steckerboard)
InitEnigma ==
    /\ debug \in BOOLEAN
    /\ \E k \in 1 .. MaxRotors, N \in 1 .. MaxN :
         /\ rotors \in UniformRotors(k, N, debug)
         /\ reflector \in {NoObject, set_wiring([i \in Range(N) |-> N - 1 - i], debug).obj}
         /\ \E sb \in {NoObject, set_wiring([i \in Range(N) |-> N - 1 - i], debug).obj} :
              steckerboard = set_steckerboard(sb, N, debug)
         /\ \E sp \in {<<"None">>, [i \in Range(k) |-> N - 1]} :
              stepping_positions = set_stepping_positions(sp, k)
    /\ nsteps = <<>> /\ ticks = 0
    /\ call = NoCall /\ prev = NoCall
    /\ enigmaUnused

EnigmaEncrypt ==
    /\ \E x \in -1 .. rotor_size :
         LET c == Enigma_encrypt(Enigma, x, debug)
         IN /\ rotors' = c.rotors
            /\ Log1("encrypt", x, c.res, c.err, Positions(rotors))
    /\ UNCHANGED <<nsteps, ticks, enigmaFrame>>

EnigmaDecrypt ==
    /\ \E y \in -1 .. rotor_size :
         LET c == Enigma_decrypt(Enigma, y, debug)
         IN /\ rotors' = c.rotors
            /\ Log1("decrypt", y, c.res, c.err, Positions(rotors))
    /\ UNCHANGED <<nsteps, ticks, enigmaFrame>>

\* rotors[i].set_position(p), the key setup of the caller
EnigmaSetPosition ==
    /\ \E i \in Range(num_rotors), p \in Range(rotor_size) :
         /\ rotors' = [rotors EXCEPT ![i] = set_position(rotors[i], p).obj]
         /\ Log1("set_position", <<i, p>>, 0, "none", <<>>)
    /\ UNCHANGED <<nsteps, ticks, enigmaFrame>>

NextEnigma ==
    \/ EnigmaEncrypt
    \/ EnigmaDecrypt
    \/ EnigmaSetPosition

SpecEnigma == InitEnigma /\ [][NextEnigma]_vars

\* C5: for an EnigmaMachine with a reflector, encrypt(x) returns some y, and
\* from the same state encrypt(y) returns x, and decrypt(y) returns what
\* encrypt(y) returns and leaves the same positions.
C5_EnigmaSelfInverse ==
    (call.op = "encrypt" /\ reflector # NoObject /\ call.arg \in Range(rotor_size)) =>
        LET again == Enigma_encrypt(EnigmaAt(call.pos), call.res, debug)
            back == Enigma_decrypt(EnigmaAt(call.pos), call.res, debug)
        IN /\ call.err = "none"
           /\ Returned(again, call.arg)
           /\ Returned(back, again.res)
           /\ Positions(back.rotors) = Positions(again.rotors)

\* C6: for an EnigmaMachine with no reflector, encrypt(x) returns some y, and
\* from the same state decrypt(y) completes without error and returns x,
\* both calls leaving the rotors at the same positions.
C6_EnigmaNoReflectorInverse ==
    (call.op = "encrypt" /\ reflector = NoObject /\ call.arg \in Range(rotor_size)) =>
        LET back == Enigma_decrypt(EnigmaAt(call.pos), call.res, debug)
        IN /\ call.err = "none"
           /\ Returned(back, call.arg)
           /\ Positions(back.rotors) = Positions(rotors)

\* the call the last tick made, made with symbol x on a second machine with
\* the same key at the positions the first had before its tick
SecondMachine(x) ==
    IF call.op = "encrypt" THEN Enigma_encrypt(EnigmaAt(call.pos), x, debug)
    ELSE Enigma_decrypt(EnigmaAt(call.pos), x, debug)

\* C20: two machines with the same key at the same positions are fed
\* different symbols by the same call (encrypt or decrypt): each tick returns
\* its output, and after the tick both machines stand at the same positions,
\* those the stepping policy yields from the positions before the tick.
C20_SteppingIndependentOfData ==
    (call.op \in {"encrypt", "decrypt"} /\ call.arg \in Range(rotor_size)) =>
        \A x \in Range(rotor_size) :
            /\ call.err = "none"
            /\ SecondMachine(x).err = "none"
            /\ Positions(SecondMachine(x).rotors) = Positions(rotors)
            /\ Positions(rotors) =
                  Positions(step_rotors(EnigmaAt(call.pos).rotors,
                                        stepping_positions, rotor_size).rotors)

(***************************************************************************)
(* EnigmaMachine.step_rotors on its own: the notch stepping of one tick,   *)
(* with the ticks and the steps of each rotor counted from the key setup.  *)
(***************************************************************************)
\* banks whose rotors all carry the rotation by one
ShiftRotors(k, N, dbg) ==
    {rs \in UniformRotors(k, N, dbg) : rs[0].wiring = [i \in Range(N) |-> (i + 1) % N]}

NoSteps(k) == [i \in Range(k) |-> 0]

InitEnigmaStep ==
    /\ debug \in BOOLEAN
    /\ \E k \in 1 .. MaxRotors, N \in 1 .. MaxN :
         /\ rotors \in ShiftRotors(k, N, debug)
         /\ reflector = NoObject
         /\ steckerboard = set_steckerboard(NoObject, N, debug)
         /\ \E sp \in {<<"None">>} \cup [Range(k) -> Range(N)] :
              stepping_positions = set_stepping_positions(sp, k)
         /\ nsteps = NoSteps(k)
    /\ ticks = 0
    /\ call = NoCall /\ prev = NoCall
    /\ enigmaUnused

\* one tick of the stepping policy: step_rotors()
EnigmaStepRotors ==
    /\ ticks < MaxTicks
    /\ LET c == step_rotors(rotors, stepping_positions, rotor_size)
       IN /\ rotors' = c.rotors
          /\ nsteps' = [i \in DOMAIN nsteps |->
                          IF i \in c.stepped THEN nsteps[i] + 1 ELSE nsteps[i]]
          /\ Log1("step_rotors", 0, c.stepped, c.err, Positions(rotors))
    /\ ticks' = ticks + 1
    /\ UNCHANGED enigmaFrame

\* rotors[i].set_position(p), the key setup of the caller; the counts start
\* again
EnigmaKeySetup ==
    /\ \E i \in Range(num_rotors), p \in Range(rotor_size) :
         /\ rotors' = [rotors EXCEPT ![i] = set_position(rotors[i], p).obj]
         /\ Log1("set_position", 0, {}, "none", <<>>)
    /\ nsteps' = NoSteps(num_rotors)
    /\ ticks' = 0
    /\ UNCHANGED enigmaFrame

NextEnigmaStep ==
    \/ EnigmaStepRotors
    \/ EnigmaKeySetup

SpecEnigmaStep == InitEnigmaStep /\ [][NextEnigmaStep]_vars

\* the positions the rotors had at the key setup: every step is a step of -1
StartedAtZero ==
    \A i \in Range(num_rotors) : (rotors[i].position + nsteps[i]) % rotor_size = 0

IsScenarioB ==
    /\ num_rotors = 3
    /\ stepping_positions = [i \in Range(3) |-> rotor_size - 1]
    /\ StartedAtZero
    /\ ticks = rotor_size

ScenarioBHolds ==
    /\ rotors[0].position = 0
    /\ nsteps[0] = rotor_size
    /\ nsteps[1] = 1
    /\ nsteps[2] = 0 /\ rotors[2].position = 0
    /\ call.err = "none"

IsTick == call.op = "step_rotors"

\* every rotor the tick stepped went back by one, every other rotor stayed
SteppedByMinusOne ==
    \A i \in Range(num_rotors) :
        rotors[i].position =
            IF i \in call.res THEN (call.pos[i] - 1) % rotor_size
            ELSE call.pos[i]

\* C14: in every tick rotor 0 steps by -1 (mod N); rotor i+1 steps by -1 in
\* that tick iff rotor i stepped in it and rotor i's position after its step
\* equals its notch stepping_positions[i]; the cascade stops at the first
\* rotor whose position after its step is not its notch.
C14_NotchStepping ==
    IsTick =>
        /\ 0 \in call.res
        /\ SteppedByMinusOne
        /\ \A i \in Range(num_rotors - 1) :
              (i + 1 \in call.res) <=>
                  (i \in call.res /\ rotors[i].position = stepping_positions[i])

\* the rotors an odometer steps in a tick: rotor 0, and rotor i+1 iff rotor
\* i stepped and landed on position 0
OdometerStepped ==
    {i \in Range(num_rotors) : \A j \in Range(i) : rotors[j].position = 0}

\* C15: with no notch list given the list is 1 for every rotor, and for
\* every rotor count, size and position state the rotors stepped in a tick
\* are those an odometer steps, rotor i+1 stepping iff rotor i lands on
\* position 0 after its step.
C15_DefaultIsOdometer ==
    (IsTick /\ stepping_positions = [i \in Range(num_rotors) |-> 1]) =>
        (call.res = OdometerStepped /\ SteppedByMinusOne)

\* the cascade of the tick reached rotor i: every rotor before it stepped
\* and satisfied the carry condition of line 179
CascadeReached(i) ==
    \A j \in Range(i) :
        /\ j \in call.res
        /\ (rotors[j].position + 1) % rotor_size = stepping_positions[j]

\* C19: every tick completes without error and touches only existing
\* rotors, for every rotor count k >= 1 and every rotor size N (N < k,
\* N = k, N > k) and position state, all k rotors carrying in one tick
\* included; when N < k the rotors with index >= N still step when the
\* cascade reaches them.
C19_TickCompletes ==
    IsTick =>
        /\ call.err = "none"
        /\ call.res \subseteq Range(num_rotors)
        /\ \A i \in Range(num_rotors) :
              (i >= rotor_size /\ CascadeReached(i)) => i \in call.res

(***************************************************************************)
(* class SIGABAMachine.  The variable rotors holds cipher_rotors.          *)
(***************************************************************************)
\* SIGABAMachine.encipher: line 96 reads the bare name cipher_rotors, which
\* no scope binds
SIGABA_encipher(m, x, dbg) == [err |-> "NameError", res |-> 0]

\* SIGABAMachine.decipher: line 102 reads self.num_rotors, an attribute the
\* class never sets (it sets num_cipher_rotors and num_control_rotors)
SIGABA_decipher(m, y, dbg) ==
    IF PyLen(m.cipher_rotors) = 0 THEN [err |-> "none", res |-> y]
    ELSE [err |-> "AttributeError", res |-> 0]

\* SIGABAMachine.control
SIGABA_control(m, x, dbg) == pass_forward(m.control_rotors, 0, x, "encrypt", dbg)

\* line 121: if z != -1: stepping[z] = True
mark_flag(stepping, z) ==
    IF z = -1 THEN [err |-> "none", stepping |-> stepping]
    ELSE IF ~PyIndexOK(stepping, z) THEN [err |-> "IndexError", stepping |-> stepping]
    ELSE [err |-> "none", stepping |-> [stepping EXCEPT ![PyNorm(stepping, z)] = TRUE]]

\* line 120: z = self.index_map[c], c being what self.control returned or
\* raised
mark_lookup(m, stepping, c) ==
    IF c.err # "none" THEN [err |-> c.err, stepping |-> stepping]
    ELSE IF ~PyIndexOK(m.index_map, c.res) THEN [err |-> "IndexError", stepping |-> stepping]
    ELSE mark_flag(stepping, PyGet(m.index_map, c.res))

\* the first loop of step_cipher_rotors, from control input t on: the
\* stepping flags, or the exception
RECURSIVE mark_stepping(_, _, _, _)
mark_rest(m, t, r, dbg) ==
    IF r.err # "none" THEN r ELSE mark_stepping(m, t, r.stepping, dbg)

mark_stepping(m, t, stepping, dbg) ==
    IF t >= PyLen(m.control_inputs) THEN [err |-> "none", stepping |-> stepping]
    ELSE mark_rest(m, t + 1,
                   mark_lookup(m, stepping, SIGABA_control(m, m.control_inputs[t], dbg)),
                   dbg)

\* the flags set, and those among them the second loop reaches: it steps
\* cipher rotor i for flag i and raises at the first flag with no cipher rotor
FlagsSet(stepping) == {i \in DOMAIN stepping : stepping[i]}
FlagsMissing(rs, stepping) == {i \in FlagsSet(stepping) : i >= PyLen(rs)}
FlagsDone(rs, stepping) ==
    {i \in FlagsSet(stepping) : \A j \in FlagsMissing(rs, stepping) : i < j}

\* the second loop of step_cipher_rotors
step_flagged(rs, flags) ==
    IF flags.err # "none" THEN [err |-> flags.err, rotors |-> rs, stepped |-> {}]
    ELSE [err |-> IF FlagsMissing(rs, flags.stepping) = {} THEN "none" ELSE "IndexError",
          rotors |-> [i \in DOMAIN rs |->
                        IF i \in FlagsDone(rs, flags.stepping) THEN step(rs[i], 1).obj
                        ELSE rs[i]],
          stepped |-> FlagsDone(rs, flags.stepping)]

\* SIGABAMachine.step_cipher_rotors: the flags are as many as the control
\* rotors (line 118)
step_cipher_rotors(m, dbg) ==
    step_flagged(m.cipher_rotors,
                 mark_stepping(m, 0, [i \in Range(PyLen(m.control_rotors)) |-> FALSE], dbg))

\* SIGABAMachine.step_control_rotors: line 127 reads
\* self.control_rotor_stepping, an attribute the class never sets (the order
\* is kept in control_step_order), so the call raises before any rotor moves
step_control_rotors(m) ==
    [err |-> "AttributeError", rotors |-> m.control_rotors, stepped |-> {}]

\* the end of encrypt and decrypt: a is what step_cipher_rotors did, b what
\* step_control_rotors did, v the value to return
tick_result(m, v, a, b) ==
    IF a.err # "none"
    THEN [err |-> a.err, res |-> 0, cipher |-> a.rotors, control |-> m.control_rotors]
    ELSE [err |-> b.err, res |-> IF b.err = "none" THEN v ELSE 0,
          cipher |-> a.rotors, control |-> b.rotors]

\* encrypt and decrypt after encipher or decipher has returned or raised y
step_and_return(m, y, dbg) ==
    IF y.err # "none"
    THEN [err |-> y.err, res |-> 0, cipher |-> m.cipher_rotors,
          control |-> m.control_rotors]
    ELSE tick_result(m, y.res, step_cipher_rotors(m, dbg), step_control_rotors(m))

\* SIGABAMachine.encrypt
SIGABA_encrypt(m, x, dbg) == step_and_return(m, SIGABA_encipher(m, x, dbg), dbg)

\* SIGABAMachine.decrypt
SIGABA_decrypt(m, y, dbg) == step_and_return(m, SIGABA_decipher(m, y, dbg), dbg)

\* the machine the variables hold
Sigaba ==
    [cipher_rotors |-> rotors, control_rotors |-> control_rotors,
     index_map |-> index_map, control_inputs |-> control_inputs,
     control_step_position |-> control_step_position,
     control_step_order |-> control_step_order]

AtPositions(rs, ps) == [i \in DOMAIN rs |-> [rs[i] EXCEPT !.position = ps[i]]]

\* the same machine with its rotors at the positions ps
SigabaAt(ps) ==
    [Sigaba EXCEPT !.cipher_rotors = AtPositions(rotors, ps.cipher),
                   !.control_rotors = AtPositions(control_rotors, ps.control)]

SigabaPositions ==
    [cipher |-> Positions(rotors), control |-> Positions(control_rotors)]

sigabaFrame == <<debug, rot, reflector, steckerboard, stepping_positions,
                 index_map, control_inputs, control_step_position,
                 control_step_order, nsteps, ticks>>

\* SIGABAMachine(cipher_rotors, control_rotors, index_map, control_inputs,
\* control_step_position, control_step_order)
InitSigaba ==
    /\ debug \in BOOLEAN
    /\ \E k \in 1 .. MaxRotors, kc \in 1 .. MaxControl, N \in 2 .. MaxN :
         /\ rotors \in ShiftRotors(k, N, debug)
         /\ control_rotors \in ShiftRotors(kc, N, debug)
         /\ index_map \in { [c \in Range(N) |-> -1], [c \in Range(N) |-> 0],
                            [c \in Range(N) |-> IF c < k THEN c ELSE -1] }
         /\ control_inputs \in { [t \in Range(1) |-> 0], [t \in Range(2) |-> t] }
         /\ control_step_order \in { [j \in Range(kc) |-> kc - 1 - j],
                                     [j \in Range(1) |-> 0] }
    /\ control_step_position \in {0, 1}
    /\ rot = <<>> /\ reflector = NoObject /\ steckerboard = NoObject
    /\ stepping_positions = <<>> /\ nsteps = <<>> /\ ticks = 0
    /\ call = NoCall /\ prev = NoCall

\* the effect of a call that returned or raised c
SigabaCall(op, arg, c) ==
    /\ rotors' = c.cipher
    /\ control_rotors' = c.control
    /\ Log1(op, arg, c.res, c.err, SigabaPositions)

SigabaEncrypt ==
    /\ \E x \in -1 .. rotor_size :
         SigabaCall("encrypt", x, SIGABA_encrypt(Sigaba, x, debug))
    /\ UNCHANGED sigabaFrame

SigabaDecrypt ==
    /\ \E y \in -1 .. rotor_size :
         SigabaCall("decrypt", y, SIGABA_decrypt(Sigaba, y, debug))
    /\ UNCHANGED sigabaFrame

SigabaStepCipherRotors ==
    /\ LET c == step_cipher_rotors(Sigaba, debug)
       IN /\ rotors' = c.rotors
          /\ Log1("step_cipher_rotors", 0, 0, c.err, SigabaPositions)
    /\ UNCHANGED <<control_rotors, sigabaFrame>>

SigabaStepControlRotors ==
    /\ LET c == step_control_rotors(Sigaba)
       IN /\ control_rotors' = c.rotors
          /\ Log1("step_control_rotors", 0, 0, c.err, SigabaPositions)
    /\ UNCHANGED <<rotors, sigabaFrame>>

\* SIGABAMachine.set_cipher_rotor_position
SigabaSetCipherRotorPosition ==
    /\ \E i \in Range(num_rotors), p \in Range(rotor_size) :
         /\ rotors' = [rotors EXCEPT ![i] = set_position(rotors[i], p).obj]
         /\ Log1("set_cipher_rotor_position", <<i, p>>, 0, "none", <<>>)
    /\ UNCHANGED <<control_rotors, sigabaFrame>>

\* SIGABAMachine.set_control_rotor_position
SigabaSetControlRotorPosition ==
    /\ \E i \in DOMAIN control_rotors, p \in Range(rotor_size) :
         /\ control_rotors' =
              [control_rotors EXCEPT ![i] = set_position(control_rotors[i], p).obj]
         /\ Log1("set_control_rotor_position", <<i, p>>, 0, "none", <<>>)
    /\ UNCHANGED <<rotors, sigabaFrame>>

\* SIGABAMachine.reset_rotors
SigabaResetRotors ==
    /\ rotors' = [i \in DOMAIN rotors |-> set_position(rotors[i], 0).obj]
    /\ control_rotors' =
         [i \in DOMAIN control_rotors |-> set_position(control_rotors[i], 0).obj]
    /\ Log1("reset_rotors", 0, 0, "none", <<>>)
    /\ UNCHANGED sigabaFrame

NextSigaba ==
    \/ SigabaEncrypt
    \/ SigabaDecrypt
    \/ SigabaStepCipherRotors
    \/ SigabaStepControlRotors
    \/ SigabaSetCipherRotorPosition
    \/ SigabaSetControlRotorPosition
    \/ SigabaResetRotors

SpecSigaba == InitSigaba /\ [][NextSigaba]_vars

\* C7: of two SIGABA machines with the same key at the same positions, one
\* runs encrypt(x) and the other decrypt on what the first returned: the
\* second returns x and both end with the same cipher and control positions.
C7_SigabaSymmetry ==
    (call.op = "encrypt" /\ call.arg \in Range(rotor_size)) =>
        LET B == SIGABA_decrypt(SigabaAt(call.pos), call.res, debug)
        IN /\ call.err = "none"
           /\ Returned(B, call.arg)
           /\ Positions(B.cipher) = Positions(rotors)
           /\ Positions(B.control) = Positions(control_rotors)

\* the output of the control bank for control input c at the positions the
\* control rotors had before the tick: c passed through every control rotor
\* with encode
ControlOutput(c) ==
    pass_forward(AtPositions(control_rotors, call.pos.control), 0, c, "encode", debug).res

Marked(z) ==
    \E t \in DOMAIN control_inputs : index_map[ControlOutput(control_inputs[t])] = z

\* C8: in one SIGABA tick (encrypt or decrypt) every cipher rotor z with
\* z = index_map[control(c)] for at least one control input c steps by
\* exactly +1, and every other cipher rotor keeps its position.
C8_MarkedRotorsStepOnce ==
    (call.op \in {"encrypt", "decrypt"}) =>
        \A z \in Range(num_rotors) :
            rotors[z].position =
                IF Marked(z) THEN (call.pos.cipher[z] + 1) % rotor_size
                ELSE call.pos.cipher[z]

\* the last call was a SIGABA tick
IsSigabaTick == call.op \in {"encrypt", "decrypt"}

\* control rotor i changed position in the last call (the rotors have at
\* least two positions, so one step shows)
ControlStepped(i) == control_rotors[i].position # call.pos.control[i]

InOrder(i) == \E j \in DOMAIN control_step_order : control_step_order[j] = i

\* C16: in every tick (encrypt or decrypt) the control rotor
\* control_step_order[0] steps exactly once, and a control rotor whose index
\* is not in control_step_order never changes position.
C16_ControlOrderStepping ==
    IsSigabaTick =>
        /\ control_rotors[control_step_order[0]].position =
              (call.pos.control[control_step_order[0]] + 1) % rotor_size
        /\ \A i \in DOMAIN control_rotors : ~InOrder(i) => ~ControlStepped(i)

\* C17: the control bank carries along the list control_step_order: the
\* stepping completes, its first rotor steps, and for j >= 1 control rotor
\* control_step_order[j] steps iff control rotor control_step_order[j-1]
\* stepped and landed on control_step_position after its step.
C17_ControlCarryByOrder ==
    call.op = "step_control_rotors" =>
        /\ call.err = "none"
        /\ ControlStepped(control_step_order[0])
        /\ \A j \in DOMAIN control_step_order :
              j >= 1 =>
                 (ControlStepped(control_step_order[j]) <=>
                     (/\ ControlStepped(control_step_order[j - 1])
                      /\ control_rotors[control_step_order[j - 1]].position
                            = control_step_position))

(***************************************************************************)
(* SimpleRotorMachine: named in the header of src/Rotor_Machine.py (line   *)
(* 6) and not implemented there.  Modelled from the specification: one     *)
(* cipher bank, odometer stepping with carry at position 0, a step after   *)
(* every encrypt and every decrypt.                                        *)
(***************************************************************************)
\* the odometer policy from rotor i on, rotor i - 1 having just stepped:
\* rotor i steps iff rotor i - 1 stands on the carry position
RECURSIVE odometer_from(_, _, _, _)
odometer_from(rs, carry, i, stepped) ==
    IF i >= PyLen(rs) \/ rs[i - 1].position # carry
    THEN [rotors |-> rs, stepped |-> stepped]
    ELSE odometer_from([rs EXCEPT ![i] = step(rs[i], 1).obj], carry, i + 1,
                       stepped \cup {i})

\* one tick of the odometer: rotor 0 always steps
odometer(rs, carry) ==
    odometer_from([rs EXCEPT ![0] = step(rs[0], 1).obj], carry, 1, {0})

\* SimpleRotorMachine.encrypt: the forward pass, then the step
Simple_encrypt(rs, x, dbg) ==
    [out |-> pass_forward(rs, 0, x, "encode", dbg), after |-> odometer(rs, 0)]

\* SimpleRotorMachine.decrypt: the backward pass, then the step
Simple_decrypt(rs, y, dbg) ==
    [out |-> pass_backward(rs, PyLen(rs) - 1, y, "decode", dbg), after |-> odometer(rs, 0)]

InitSimple ==
    /\ debug \in BOOLEAN
    /\ \E k \in 1 .. MaxRotors, N \in 1 .. MaxN :
         /\ rotors \in ShiftRotors(k, N, debug)
         /\ nsteps = NoSteps(k)
    /\ ticks = 0
    /\ reflector = NoObject /\ steckerboard = NoObject /\ stepping_positions = <<>>
    /\ call = NoCall /\ prev = NoCall
    /\ enigmaUnused

\* the effect of a tick that did c
SimpleTick(op, arg, c) ==
    /\ rotors' = c.after.rotors
    /\ nsteps' = [i \in DOMAIN nsteps |->
                    IF i \in c.after.stepped THEN nsteps[i] + 1 ELSE nsteps[i]]
    /\ call' = [op |-> op, arg |-> arg, res |-> c.out.res, err |-> c.out.err,
                pos |-> Positions(rotors), stepped |-> c.after.stepped]
    /\ ticks' = ticks + 1
    /\ UNCHANGED prev

SimpleEncrypt ==
    /\ ticks < MaxSimpleTicks
    /\ \E x \in Range(rotor_size) : SimpleTick("encrypt", x, Simple_encrypt(rotors, x, debug))
    /\ UNCHANGED enigmaFrame

SimpleDecrypt ==
    /\ ticks < MaxSimpleTicks
    /\ \E y \in Range(rotor_size) : SimpleTick("decrypt", y, Simple_decrypt(rotors, y, debug))
    /\ UNCHANGED enigmaFrame

\* the key setup: RotorBank.set_rotor_position; the counts start again
SimpleKeySetup ==
    /\ \E i \in Range(num_rotors), p \in Range(rotor_size) :
         /\ rotors' = RotorBank_set_rotor_position(rotors, i, p).rotors
         /\ call' = [op |-> "set_rotor_position", arg |-> 0, res |-> 0,
                     err |-> "none", pos |-> <<>>, stepped |-> {}]
    /\ nsteps' = NoSteps(num_rotors)
    /\ ticks' = 0
    /\ UNCHANGED <<prev, enigmaFrame>>

NextSimple ==
    \/ SimpleEncrypt
    \/ SimpleDecrypt
    \/ SimpleKeySetup

SpecSimple == InitSimple /\ [][NextSimple]_vars

RECURSIVE Pow(_, _)
Pow(b, e) == IF e = 0 THEN 1 ELSE b * Pow(b, e - 1)

\* the rotors stood at 0 at the key setup: every step is a step of +1
SimpleStartedAtZero ==
    \A i \in Range(num_rotors) : (rotors[i].position - nsteps[i]) % rotor_size = 0

====
